---- MODULE Spec2Model ----
(***************************************************************************)
(* Model of the fixed-size worker-thread pool of src/src/lib.rs:           *)
(* ThreadPool::new, ThreadPool::execute, Drop for ThreadPool and the       *)
(* worker loop spawned by Worker::new, over std::sync::mpsc and Mutex.     *)
(***************************************************************************)
EXTENDS Integers, Sequences, FiniteSets, TLC

\* Bounds of the model.
MaxSize == 2
MaxJobs == 3

\* Sentinels: no worker holds the lock / a worker has no current job.
NoWorker == -1
NoJob == 0

VARIABLES
    pc,          \* position of the thread that owns the pool
    reqSize,     \* the argument given to ThreadPool::new
    workers,     \* ThreadPool.workers: id -> [id, thread]
    sender,      \* ThreadPool.sender: "Some" or "None"
    rxRefs,      \* strong count of the Arc<Mutex<Receiver>>
    lockHolder,  \* worker holding the Mutex guard, or NoWorker
    poisoned,    \* the Mutex poison flag
    queue,       \* messages buffered in the mpsc channel
    wpc,         \* position of each worker thread
    cur,         \* the job each worker thread holds
    jobState,    \* what has become of each job
    execCount,   \* how many times the job's closure has been invoked
    submitCtx,   \* busy workers and queue length seen by the last execute call
    nextJob,     \* the next job the caller submits
    joinIdx,     \* position of Drop's loop over self.workers
    closeCtx,    \* jobs queued and in flight when drop closed the channel
    reported     \* workers for which Drop printed "Error dropping"

vars == <<pc, reqSize, workers, sender, rxRefs, lockHolder, poisoned, queue,
          wpc, cur, jobState, execCount, submitCtx, nextJob,
          joinIdx, closeCtx, reported>>

Jobs == 1..MaxJobs

WorkerSet == DOMAIN workers

\* A worker thread whose closure has returned or unwound.
Finished(w) == wpc[w] \in {"terminated", "panicked"}

\* Number of workers that are running a job.
Busy == Cardinality({w \in WorkerSet : wpc[w] = "exec"})

\* The pool value exists (new returned it).
Constructed == pc \in {"live", "shutdown", "joining", "done"}

----------------------------------------------------------------------------
\* ThreadPool::new

\* assert!(size > 0)
NewPrecondition_NoAssert(size) == TRUE
NewPrecondition(size) == size > 0

\* for i in 0..size
WorkerIds_FromOne(size) == 1..size
WorkerIds(size) == 0..(size - 1)

\* Worker::new returns Self { id, thread: Some(thread) }
NewWorker(id) == [id |-> id, thread |-> "Some"]

Init ==
    /\ pc = "start"
    /\ reqSize = 0
    /\ workers = [i \in {} |-> NewWorker(i)]
    /\ sender = "None"
    /\ rxRefs = 0
    /\ lockHolder = NoWorker
    /\ poisoned = FALSE
    /\ queue = <<>>
    /\ wpc = [i \in {} |-> "lock"]
    /\ cur = [i \in {} |-> NoJob]
    /\ jobState = [j \in Jobs |-> "unsubmitted"]
    /\ execCount = [j \in Jobs |-> 0]
    /\ submitCtx = [busy |-> 0, qlen |-> 0]
    /\ nextJob = 1
    /\ joinIdx = 0
    /\ closeCtx = [queued |-> 0, running |-> 0]
    /\ reported = {}

New(size) ==
    /\ pc = "start"
    /\ reqSize' = size
    /\ IF ~NewPrecondition(size)
       THEN /\ pc' = "newPanicked"
            /\ UNCHANGED <<workers, sender, rxRefs, wpc, cur>>
       ELSE /\ pc' = "live"
            /\ workers' = [i \in WorkerIds(size) |-> NewWorker(i)]
            /\ wpc' = [i \in WorkerIds(size) |-> "lock"]
            /\ cur' = [i \in WorkerIds(size) |-> NoJob]
            \* one clone per worker closure; the local rx is dropped on return
            /\ rxRefs' = Cardinality(WorkerIds(size))
            /\ sender' = "Some"
    /\ UNCHANGED <<lockHolder, poisoned, queue, jobState,
                   execCount, submitCtx, nextJob, joinIdx, closeCtx, reported>>

----------------------------------------------------------------------------
\* ThreadPool::execute

\* mpsc::channel() is unbounded: send never waits for room or for a receiver.
CanSend_Rendezvous(q, idle) == Len(q) < idle
CanSend(q, idle) == TRUE

\* self.sender.as_ref().expect(..).send(job).expect(..)
ExecuteOutcome_IgnoreClosed(s, refs) ==
    IF refs = 0 THEN "panic_send" ELSE "sent"
ExecuteOutcome(s, refs) ==
    IF s = "None" THEN "panic_no_sender"
    ELSE IF refs = 0 THEN "panic_send"
    ELSE "sent"

\* Sender::send pushes at the back of the channel's buffer.
Enqueue_Front(q, j) == <<j>> \o q
Enqueue(q, j) == Append(q, j)

IdleWorkers == Cardinality({w \in WorkerSet : wpc[w] \in {"lock", "recv"}})

Execute ==
    /\ Constructed
    /\ nextJob <= MaxJobs
    /\ CanSend(queue, IdleWorkers)
    /\ LET j == nextJob
           out == ExecuteOutcome(sender, rxRefs)
       IN /\ nextJob' = j + 1
          /\ submitCtx' = [busy |-> Busy, qlen |-> Len(queue)]
          /\ IF out = "sent"
             THEN /\ queue' = Enqueue(queue, j)
                  /\ jobState' = [jobState EXCEPT ![j] = "queued"]
             ELSE /\ queue' = queue
                  /\ jobState' = [jobState EXCEPT ![j] = out]
    /\ UNCHANGED <<pc, reqSize, workers, sender, rxRefs, lockHolder, poisoned,
                   wpc, cur, execCount, joinIdx, closeCtx, reported>>

----------------------------------------------------------------------------
\* The worker loop of Worker::new

\* Dropping the last Arc drops the Receiver and with it the buffered jobs.
QueueAfterThreadEnd(q, refs) == IF refs = 0 THEN <<>> ELSE q

JobsAfterThreadEnd(js, q, refs) ==
    IF refs = 0
    THEN [j \in Jobs |->
            IF \E k \in 1..Len(q) : q[k] = j THEN "discarded" ELSE js[j]]
    ELSE js

\* Mutex::lock blocks until no other thread holds the guard.
LockFree_Always(h) == TRUE
LockFree(h) == h = NoWorker

\* receiver.lock().expect("... The receiver was poisoned!")
WorkerLock(w) ==
    /\ w \in WorkerSet
    /\ wpc[w] = "lock"
    /\ LockFree(lockHolder)
    /\ IF poisoned
       THEN /\ wpc' = [wpc EXCEPT ![w] = "panicked"]
            /\ rxRefs' = rxRefs - 1
            /\ queue' = QueueAfterThreadEnd(queue, rxRefs - 1)
            /\ jobState' = JobsAfterThreadEnd(jobState, queue, rxRefs - 1)
            /\ UNCHANGED lockHolder
       ELSE /\ wpc' = [wpc EXCEPT ![w] = "recv"]
            /\ lockHolder' = w
            /\ UNCHANGED <<rxRefs, queue, jobState>>
    /\ UNCHANGED <<pc, reqSize, workers, sender, poisoned, cur,
                   execCount, submitCtx, nextJob, joinIdx, closeCtx, reported>>

\* Receiver::recv takes the oldest buffered message.
RecvPick_Last(q) == q[Len(q)]
RecvPick(q) == Head(q)

RecvRest_Keep(q) == q
RecvRest(q) == Tail(q)

\* Receiver::recv returns Ok as soon as one message is buffered.
RecvReady_Pair(q) == Len(q) >= 2
RecvReady(q) == q # <<>>

\* The guard is a temporary of the `let message = ...;` statement.
LockAfterRecv_Held(w) == w
LockAfterRecv(w) == NoWorker

\* .recv() returned Ok(job): the guard is dropped, then job() is called.
WorkerRecvJob(w) ==
    /\ w \in WorkerSet
    /\ wpc[w] = "recv"
    /\ lockHolder = w
    /\ RecvReady(queue)
    /\ LET j == RecvPick(queue)
       IN /\ queue' = RecvRest(queue)
          /\ cur' = [cur EXCEPT ![w] = j]
          /\ jobState' = [jobState EXCEPT ![j] = "running"]
          /\ execCount' = [execCount EXCEPT ![j] = @ + 1]
    /\ lockHolder' = LockAfterRecv(w)
    /\ wpc' = [wpc EXCEPT ![w] = "exec"]
    /\ UNCHANGED <<pc, reqSize, workers, sender, rxRefs, poisoned,
                   submitCtx, nextJob, joinIdx, closeCtx, reported>>

\* recv reports disconnection only when no Sender is left and nothing is buffered.
Disconnected_AnyTime(q, s) == q = <<>>
Disconnected(q, s) == q = <<>> /\ s = "None"

\* .recv() returned Err(_): the guard is dropped, the loop breaks, the thread ends.
WorkerRecvErr(w) ==
    /\ w \in WorkerSet
    /\ wpc[w] = "recv"
    /\ lockHolder = w
    /\ Disconnected(queue, sender)
    /\ lockHolder' = NoWorker
    /\ wpc' = [wpc EXCEPT ![w] = "terminated"]
    /\ rxRefs' = rxRefs - 1
    /\ queue' = QueueAfterThreadEnd(queue, rxRefs - 1)
    /\ jobState' = JobsAfterThreadEnd(jobState, queue, rxRefs - 1)
    /\ UNCHANGED <<pc, reqSize, workers, sender, poisoned, cur,
                   execCount, submitCtx, nextJob, joinIdx, closeCtx, reported>>

\* job() returns: back to the top of the loop. Whether a job returns or
\* panics is up to the closure the caller passed.
WorkerJobReturn(w) ==
    /\ w \in WorkerSet
    /\ wpc[w] = "exec"
    /\ jobState' = [jobState EXCEPT ![cur[w]] = "done"]
    /\ cur' = [cur EXCEPT ![w] = NoJob]
    /\ wpc' = [wpc EXCEPT ![w] = "lock"]
    \* a guard still alive here would be dropped at the end of the iteration
    /\ lockHolder' = IF lockHolder = w THEN NoWorker ELSE lockHolder
    /\ UNCHANGED <<pc, reqSize, workers, sender, rxRefs, poisoned, queue,
                   execCount, submitCtx, nextJob, joinIdx, closeCtx, reported>>

\* job() panics: the thread unwinds, dropping its Arc clone; a guard dropped
\* while panicking poisons the Mutex.
WorkerJobPanic(w) ==
    /\ w \in WorkerSet
    /\ wpc[w] = "exec"
    /\ poisoned' = (poisoned \/ lockHolder = w)
    /\ lockHolder' = IF lockHolder = w THEN NoWorker ELSE lockHolder
    /\ wpc' = [wpc EXCEPT ![w] = "panicked"]
    /\ cur' = [cur EXCEPT ![w] = NoJob]
    /\ rxRefs' = rxRefs - 1
    /\ queue' = QueueAfterThreadEnd(queue, rxRefs - 1)
    /\ jobState' = JobsAfterThreadEnd(
                      [jobState EXCEPT ![cur[w]] = "panicked"],
                      queue, rxRefs - 1)
    /\ UNCHANGED <<pc, reqSize, workers, sender, execCount,
                   submitCtx, nextJob, joinIdx, closeCtx, reported>>

----------------------------------------------------------------------------
\* Drop for ThreadPool

\* drop(self.sender.take())
SenderAfterTake_Kept(s) == s
SenderAfterTake(s) == "None"

DropClose ==
    /\ pc = "live"
    /\ sender' = SenderAfterTake(sender)
    /\ joinIdx' = 0
    /\ closeCtx' = [queued |-> Len(queue), running |-> Busy]
    /\ pc' = "shutdown"
    /\ UNCHANGED <<reqSize, workers, rxRefs, lockHolder, poisoned, queue, wpc,
                   cur, jobState, execCount, submitCtx, nextJob,
                   reported>>

\* Option::take leaves None in the worker's thread field.
ThreadAfterTake_Kept(t) == t
ThreadAfterTake(t) == "None"

\* println!("Shutting down worker {}"); worker.thread.take()
DropTake(i) ==
    /\ pc = "shutdown"
    /\ joinIdx = i
    /\ i \in WorkerSet
    /\ workers' = [workers EXCEPT ![i].thread = ThreadAfterTake(@)]
    /\ pc' = IF workers[i].thread = "Some" THEN "joining" ELSE "shutdown"
    /\ joinIdx' = IF workers[i].thread = "Some" THEN i ELSE i + 1
    /\ UNCHANGED <<reqSize, sender, rxRefs, lockHolder, poisoned, queue, wpc,
                   cur, jobState, execCount, submitCtx, nextJob,
                   closeCtx, reported>>

\* JoinHandle::join blocks until the thread has ended.
JoinReady_NoWait(state) == TRUE
JoinReady(state) == state \in {"terminated", "panicked"}

\* join() is Err exactly when the thread panicked.
JoinResult(state) == IF state = "panicked" THEN "Err" ELSE "Ok"

\* .unwrap_or_else(|_| println!("Error dropping {}", worker.id))
OnJoinResult_Unwrap(r) ==
    IF r = "Err" THEN [pc |-> "dropPanicked", report |-> FALSE]
    ELSE [pc |-> "shutdown", report |-> FALSE]
OnJoinResult(r) ==
    IF r = "Err" THEN [pc |-> "shutdown", report |-> TRUE]
    ELSE [pc |-> "shutdown", report |-> FALSE]

DropJoin(i) ==
    /\ pc = "joining"
    /\ joinIdx = i
    /\ i \in WorkerSet
    /\ JoinReady(wpc[i])
    /\ LET res == OnJoinResult(JoinResult(wpc[i]))
       IN /\ pc' = res.pc
          /\ reported' = IF res.report THEN reported \cup {workers[i].id}
                         ELSE reported
    /\ joinIdx' = i + 1
    /\ UNCHANGED <<reqSize, workers, sender, rxRefs, lockHolder, poisoned,
                   queue, wpc, cur, jobState, execCount, submitCtx,
                   nextJob, closeCtx>>

\* the loop over self.workers is exhausted and drop returns
DropReturn ==
    /\ pc = "shutdown"
    /\ joinIdx \notin WorkerSet
    /\ pc' = "done"
    /\ UNCHANGED <<reqSize, workers, sender, rxRefs, lockHolder, poisoned,
                   queue, wpc, cur, jobState, execCount, submitCtx,
                   nextJob, joinIdx, closeCtx, reported>>

----------------------------------------------------------------------------
Next ==
    \/ \E size \in 0..MaxSize : New(size)
    \/ Execute
    \/ \E w \in 0..(MaxSize - 1) : WorkerLock(w)
    \/ \E w \in 0..(MaxSize - 1) : WorkerRecvJob(w)
    \/ \E w \in 0..(MaxSize - 1) : WorkerRecvErr(w)
    \/ \E w \in 0..(MaxSize - 1) : WorkerJobReturn(w)
    \/ \E w \in 0..(MaxSize - 1) : WorkerJobPanic(w)
    \/ DropClose
    \/ \E i \in 0..(MaxSize - 1) : DropTake(i)
    \/ \E i \in 0..(MaxSize - 1) : DropJoin(i)
    \/ DropReturn

Spec == Init /\ [][Next]_vars

\* Fair scheduling of the worker threads and of the thread running drop; every
\* job terminates (returns or panics).
Fairness ==
    /\ \A w \in 0..(MaxSize - 1) :
          /\ WF_vars(WorkerLock(w))
          /\ WF_vars(WorkerRecvJob(w))
          /\ WF_vars(WorkerRecvErr(w))
          /\ WF_vars(WorkerJobReturn(w))
          /\ WF_vars(WorkerJobPanic(w))
    /\ \A i \in 0..(MaxSize - 1) : WF_vars(DropTake(i)) /\ WF_vars(DropJoin(i))
    /\ WF_vars(DropReturn)

FairSpec == Spec /\ Fairness

TypeOK ==
    /\ pc \in {"start", "newPanicked", "live", "shutdown", "joining", "done"}
    /\ reqSize \in 0..MaxSize
    /\ sender \in {"Some", "None"}
    /\ rxRefs \in 0..MaxSize
    /\ lockHolder \in WorkerSet \cup {NoWorker}
    /\ poisoned \in BOOLEAN
    /\ \A w \in WorkerSet : wpc[w] \in {"lock", "recv", "exec", "terminated", "panicked"}
    /\ \A j \in Jobs : jobState[j] \in {"unsubmitted", "queued", "running", "done",
                                        "panicked", "discarded", "panic_no_sender",
                                        "panic_send"}

----------------------------------------------------------------------------
\* Properties

\* execute returned normally for job j.
Accepted(j) == jobState[j] \notin {"unsubmitted", "panic_no_sender", "panic_send"}

\* The closure of job j has been invoked.
Started(j) == execCount[j] >= 1

NoJobPanicked == \A j \in Jobs : jobState[j] # "panicked"

DropStarted == pc \in {"shutdown", "joining"}

AllWorkersFinished == \A w \in WorkerSet : Finished(w)

\* C1: no job is ever executed more than once, and once drop has returned
\* (no job having panicked) every job execute accepted has run exactly once.
C1_ExactlyOnce ==
    /\ \A j \in Jobs : execCount[j] <= 1
    /\ (pc = "done" /\ NoJobPanicked) =>
          \A j \in Jobs : Accepted(j) => (execCount[j] = 1 /\ jobState[j] = "done")

\* More jobs than workers were submitted, all ran once, drop returned.
C1_Witness ==
    /\ pc = "done"
    /\ NoJobPanicked
    /\ reqSize >= 1
    /\ reqSize < MaxJobs
    /\ \A j \in Jobs : jobState[j] = "done" /\ execCount[j] = 1

\* C2: when drop returns, nothing is left in the queue and no worker holds or
\* runs a job: every dequeued job has run to its end.
C2_DropWaitsForJobs ==
    pc = "done" =>
        /\ queue = <<>>
        /\ \A w \in WorkerSet : wpc[w] # "exec" /\ cur[w] = NoJob
        /\ \A j \in Jobs : jobState[j] \notin {"queued", "running"}

\* Drop began with a job queued behind one in flight, and has returned.
C2_Witness ==
    /\ pc = "done"
    /\ closeCtx.queued >= 1
    /\ closeCtx.running >= 1
    /\ \E j \in Jobs : jobState[j] = "done"

\* C3: once drop has begun it returns, and when it has returned every worker
\* thread has ended and the receive lock is free.
C3_DropTerminates ==
    /\ [](pc = "done" => (AllWorkersFinished /\ lockHolder = NoWorker /\ rxRefs = 0))
    /\ (DropStarted ~> pc = "done")

\* Drop of a full-size pool returned after closing a channel with work pending.
C3_Witness ==
    /\ pc = "done"
    /\ reqSize = MaxSize
    /\ AllWorkersFinished
    /\ closeCtx.queued >= 1

\* C4: an execute call made while sender is None panics and leaves the queue
\* as it was; a call that returns normally has put the job at the back of the
\* queue; a job whose execute call panicked is never run.
C4_SubmitAfterCloseFails ==
    [][\A j \in Jobs :
         /\ (jobState[j] = "unsubmitted" /\ jobState'[j] # "unsubmitted") =>
               IF sender = "None"
               THEN jobState'[j] = "panic_no_sender" /\ queue' = queue
               ELSE \/ jobState'[j] = "panic_send" /\ queue' = queue
                    \/ jobState'[j] = "queued" /\ queue' = Append(queue, j)
         /\ jobState[j] \in {"panic_no_sender", "panic_send"} =>
               (jobState'[j] = jobState[j] /\ execCount'[j] = 0)]_vars

\* execute was called on a closed pool while a worker was still alive.
C4_Witness ==
    /\ sender = "None"
    /\ \E j \in Jobs : jobState[j] = "panic_no_sender" /\ execCount[j] = 0
    /\ \E w \in WorkerSet : ~Finished(w)

\* C5: new(0) panics, leaving no channel endpoint and no worker.
C5_NewZeroPanics ==
    (pc # "start" /\ reqSize = 0) =>
        /\ pc = "newPanicked"
        /\ WorkerSet = {}
        /\ sender = "None"
        /\ rxRefs = 0

C5_Witness == pc = "newPanicked" /\ reqSize = 0

\* C6: for size >= 1, new returns a pool of exactly size workers with ids
\* 0..size-1, each holding a clone of the one receiver and at the top of its
\* loop, and the pool holds the open sender.
C6_NewCreatesWorkers ==
    [][(pc = "start" /\ reqSize' >= 1) =>
          /\ pc' = "live"
          /\ DOMAIN workers' = 0..(reqSize' - 1)
          /\ DOMAIN wpc' = DOMAIN workers'
          /\ Cardinality(DOMAIN workers') = reqSize'
          /\ \A i \in DOMAIN workers' :
                /\ workers'[i].id = i
                /\ workers'[i].thread = "Some"
                /\ wpc'[i] = "lock"
          /\ rxRefs' = reqSize'
          /\ lockHolder' = NoWorker
          /\ sender' = "Some"]_vars

C6_Witness ==
    /\ pc = "live"
    /\ reqSize = MaxSize
    /\ Cardinality(WorkerSet) = MaxSize
    /\ \A w \in WorkerSet : wpc[w] = "lock"

\* C7: a worker's handle is taken for joining only after the sender has been
\* dropped and after every worker created before it has been joined and has
\* ended.
C7_OrderedShutdown ==
    \A i \in WorkerSet :
        workers[i].thread = "None" =>
            /\ sender = "None"
            /\ pc \in {"shutdown", "joining", "done"}
            /\ i <= joinIdx
            /\ \A k \in WorkerSet :
                  k < i => (workers[k].thread = "None" /\ Finished(k))

\* Worker 0 has been joined and drop is waiting for worker 1, still at work.
C7_Witness ==
    /\ pc = "joining"
    /\ joinIdx = 1
    /\ Finished(0)
    /\ wpc[1] = "exec"

\* C8: drop never aborts, and once a worker has panicked and drop has begun,
\* drop goes on to take every worker's handle, reports every panicked worker
\* and returns.
C8_DropToleratesPanickedWorker ==
    /\ [](pc # "dropPanicked")
    /\ (DropStarted /\ \E w \in WorkerSet : wpc[w] = "panicked")
          ~> (/\ pc = "done"
              /\ \A k \in WorkerSet : workers[k].thread = "None"
              /\ \A w \in WorkerSet : wpc[w] = "panicked" => w \in reported)

\* A panicked worker was joined and reported, and a later one joined after it.
C8_Witness ==
    /\ pc = "done"
    /\ \E w, k \in WorkerSet :
          /\ w < k
          /\ wpc[w] = "panicked"
          /\ w \in reported
          /\ wpc[k] = "terminated"
          /\ workers[k].thread = "None"

\* C9: with one worker, a job starts only after every job accepted before it
\* has ended.
C9_SingleWorkerFifo ==
    reqSize = 1 =>
        \A a, b \in Jobs :
            (a < b /\ Accepted(a) /\ Started(b)) =>
                jobState[a] \in {"done", "panicked"}

\* One worker ran MaxJobs jobs, two of which were queued together.
C9_Witness ==
    /\ reqSize = 1
    /\ \A j \in Jobs : jobState[j] = "done"
    /\ submitCtx.qlen >= 1

\* C10: an execute call is never held up: whatever the workers are doing and
\* however long the queue is, the call can complete.
C10_ExecuteNeverWaits ==
    (Constructed /\ nextJob <= MaxJobs) => ENABLED Execute

\* The last execute call was accepted while every worker was running a job and
\* another job was already waiting in the queue.
C10_Witness ==
    /\ reqSize >= 1
    /\ nextJob > 1
    /\ Accepted(nextJob - 1)
    /\ submitCtx.busy = reqSize
    /\ submitCtx.qlen >= 1

\* The workers that hold a clone of the receiver and have not ended.
Running(w) == ~Finished(w)

\* C11: a worker that is running a job does not hold the receive lock.
C11_NoLockDuringJob ==
    \A w \in WorkerSet : wpc[w] = "exec" => lockHolder # w

\* One worker runs a job while another holds the lock in recv.
C11_Witness ==
    \E w, v \in WorkerSet :
        /\ wpc[w] = "exec"
        /\ wpc[v] = "recv"
        /\ lockHolder = v

\* The jobs whose closure is being run.
RunningJobs == {j \in Jobs : jobState[j] = "running"}

\* C12: never more jobs run at once than the pool has workers, and a worker
\* that runs a job keeps no other worker from the lock: when no worker is
\* receiving, any worker at the top of its loop can take the lock.
C12_ParallelExecution ==
    /\ Cardinality(RunningJobs) <= reqSize
    /\ \A w \in WorkerSet :
          (wpc[w] = "lock" /\ \A v \in WorkerSet : wpc[v] # "recv")
             => ENABLED WorkerLock(w)

\* Two workers run two different jobs at the same time.
C12_Witness ==
    /\ reqSize >= 2
    /\ \E w, v \in WorkerSet :
          /\ w # v
          /\ wpc[w] = "exec"
          /\ wpc[v] = "exec"
          /\ cur[w] # cur[v]
    /\ Cardinality(RunningJobs) >= 2

\* C13: at most one worker is inside recv, and it is the holder of the lock.
C13_ReceiveMutex ==
    /\ Cardinality({w \in WorkerSet : wpc[w] = "recv"}) <= 1
    /\ \A w \in WorkerSet : wpc[w] = "recv" => lockHolder = w
    /\ lockHolder # NoWorker => lockHolder \in WorkerSet

\* One worker is inside recv while another waits for the lock.
C13_Witness ==
    \E w, v \in WorkerSet :
        /\ w # v
        /\ wpc[w] = "recv"
        /\ lockHolder = w
        /\ wpc[v] = "lock"

\* C14 as stated: no worker holds the receive lock while suspended in recv on
\* an empty queue whose sender is still open, with another worker waiting for
\* the lock.
C14_NeverBlocksHoldingLock ==
    ~ \E w, v \in WorkerSet :
          /\ w # v
          /\ lockHolder = w
          /\ wpc[w] = "recv"
          /\ queue = <<>>
          /\ sender = "Some"
          /\ wpc[v] = "lock"

\* C14 as amended: the lock is held only by a worker that is inside recv, and
\* the step in which its recv returns (with a job or with the disconnection)
\* releases it; the holder may be suspended in recv for as long as the queue
\* is empty and open.
C14_LockHeldOnlyInRecv ==
    [][/\ \A w \in DOMAIN wpc : lockHolder = w => wpc[w] = "recv"
       /\ \A w \in DOMAIN wpc' : lockHolder' = w => wpc'[w] = "recv"
       /\ \A w \in DOMAIN wpc :
             (wpc[w] = "recv" /\ wpc'[w] # "recv") => lockHolder' # w
       /\ \A w \in DOMAIN wpc :
             (lockHolder = w /\ queue = <<>> /\ sender = "Some" /\ queue' = <<>>
                /\ sender' = "Some") => lockHolder' = w]_vars

\* A worker has come back from a job and waits for the lock, which another
\* worker holds while suspended in recv on the empty, open queue.
C14_Witness ==
    \E w, v \in WorkerSet :
        /\ w # v
        /\ lockHolder = w
        /\ wpc[w] = "recv"
        /\ queue = <<>>
        /\ sender = "Some"
        /\ wpc[v] = "lock"
        /\ \E j \in Jobs : jobState[j] = "done"

\* C15: a worker reaches "terminated" only from inside recv, with the sender
\* dropped and the queue empty; once terminated it stays so, holds no job and
\* never holds the lock.
C15_NormalExitOnlyOnClosedEmpty ==
    [][\A w \in DOMAIN wpc :
         /\ (wpc[w] # "terminated" /\ wpc'[w] = "terminated") =>
               (wpc[w] = "recv" /\ sender = "None" /\ queue = <<>>
                  /\ sender' = "None" /\ queue' = <<>>)
         /\ wpc[w] = "terminated" =>
               /\ wpc'[w] = "terminated"
               /\ cur'[w] = NoJob
               /\ lockHolder' # w
               /\ sender' = "None"
               /\ queue' = <<>>]_vars

\* A worker has terminated after the pool ran a job, another is still at work.
C15_Witness ==
    \E w, v \in WorkerSet :
        /\ wpc[w] = "terminated"
        /\ wpc[v] = "exec"
        /\ \E j \in Jobs : jobState[j] = "done"

\* The jobs waiting in the channel.
Queued == {queue[k] : k \in 1..Len(queue)}

\* C16: jobs leave the queue in the order execute put them in: the queue holds
\* each waiting job once, in submission order, a job is received only after
\* every job accepted before it, and no job is held by two workers or received
\* twice.
C16_FifoDelivery ==
    /\ \A k, l \in 1..Len(queue) : k < l => queue[k] < queue[l]
    /\ \A j \in Jobs : j \in Queued <=> jobState[j] = "queued"
    /\ \A a, b \in Jobs : (a < b /\ Accepted(a) /\ Started(b)) => Started(a)
    /\ \A w, v \in WorkerSet : (w # v /\ cur[w] # NoJob) => cur[w] # cur[v]
    /\ \A j \in Jobs : execCount[j] <= 1
    /\ \A j \in Jobs : jobState[j] = "running" => \E w \in WorkerSet : cur[w] = j

\* Two workers hold the first two jobs, the third waits in the queue.
C16_Witness ==
    /\ reqSize >= 2
    /\ \E w, v \in WorkerSet : w # v /\ cur[w] = 1 /\ cur[v] = 2
    /\ queue = <<3>>

\* C17: under fair scheduling, with every job terminating, a job waiting in
\* the queue is eventually received and run, unless no worker is left running.
C17_QueuedJobEventuallyRuns ==
    \A j \in Jobs :
        (jobState[j] = "queued") ~> (Started(j) \/ AllWorkersFinished)

\* The last job was submitted behind another while every worker was busy, and
\* has been run, with the pool still live.
C17_Witness ==
    /\ pc = "live"
    /\ submitCtx.qlen >= 1
    /\ submitCtx.busy = reqSize
    /\ jobState[MaxJobs] = "done"
    /\ \E w \in WorkerSet : Running(w)

\* C18: a worker panics only out of a job it is running; the step changes no
\* other worker's position and leaves the lock with whoever held it; the
\* Mutex is never poisoned.
C18_JobPanicContained ==
    [][/\ \A w \in DOMAIN wpc :
             (wpc[w] # "panicked" /\ wpc'[w] = "panicked") =>
                /\ wpc[w] = "exec"
                /\ lockHolder' = lockHolder
                /\ \A v \in DOMAIN wpc : v # w => wpc'[v] = wpc[v]
       /\ ~poisoned
       /\ ~poisoned']_vars

\* A job panicked; the last job was submitted after that, with nothing queued
\* or running, and another worker received it and ran it to the end.
C18_Witness ==
    /\ \E j \in Jobs : j < MaxJobs /\ jobState[j] = "panicked"
    /\ nextJob = MaxJobs + 1
    /\ submitCtx = [busy |-> 0, qlen |-> 0]
    /\ jobState[MaxJobs] = "done"
    /\ \E w \in WorkerSet : wpc[w] = "panicked"

\* C19 as stated: when drop has returned, every job that execute accepted has
\* been run.
C19_NoAcceptedJobLost ==
    pc = "done" =>
        \A j \in Jobs : Accepted(j) => jobState[j] \in {"done", "panicked"}

\* C20: after construction the set of workers and their ids never change, a
\* worker that has ended stays as it ended, a handle that has been taken stays
\* None, drop's loop only moves forward, and every join is made on a worker
\* whose handle has just been taken and moves the loop to the next worker.
C20_WorkerSetFixed ==
    [][pc # "start" =>
          /\ DOMAIN workers' = DOMAIN workers
          /\ DOMAIN wpc' = DOMAIN wpc
          /\ Cardinality(DOMAIN workers') = reqSize
          /\ \A w \in DOMAIN workers :
                /\ workers'[w].id = workers[w].id
                /\ Finished(w) => wpc'[w] = wpc[w]
                /\ workers[w].thread = "None" => workers'[w].thread = "None"
          /\ Cardinality({w \in DOMAIN wpc' : wpc'[w] \notin {"terminated", "panicked"}})
                <= Cardinality({w \in DOMAIN wpc : Running(w)})
          /\ joinIdx' >= joinIdx
          /\ (pc = "joining" /\ pc' # "joining") =>
                /\ workers[joinIdx].thread = "None"
                /\ joinIdx' = joinIdx + 1]_vars

\* Drop has joined every worker, one of which had panicked and one terminated.
C20_Witness ==
    /\ pc = "done"
    /\ joinIdx = reqSize
    /\ reqSize = MaxSize
    /\ \A w \in WorkerSet : workers[w].thread = "None" /\ Finished(w)
    /\ \E w \in WorkerSet : wpc[w] = "panicked"
    /\ \E w \in WorkerSet : wpc[w] = "terminated"
====
